---- MODULE Spec2Model ----
(***************************************************************************)
(* Model of src/index.py: the ChatbotEngagementMetrics accumulator, its    *)
(* scoring function, and the simulate_conversation / analyze_dataset       *)
(* drivers.                                                                *)
(*                                                                         *)
(* Time is counted in whole seconds.  `now` is the latest value returned   *)
(* by time.time(); every later read returns a value >= now (the clock is   *)
(* taken to be non-decreasing, and positive as an epoch clock is).         *)
(* Floats are modelled as exact rationals <<numerator, denominator>>.      *)
(* Message.content and Message.length do not influence any counter or the  *)
(* score and are left out of the message record.                           *)
(***************************************************************************)
EXTENDS Integers, Sequences, FiniteSets

VARIABLES metrics, now, returned, pc, is_user_turn, start_time, duration

vars == <<metrics, now, returned, pc, is_user_turn, start_time, duration>>
simvars == <<pc, is_user_turn, start_time, duration>>

(***************************** program constants **************************)
PageSwitchWindow == 5
SlowThreshold == 30
MinMessages == 6
GhostingCap == 300
MinSleep == 1
MaxSleep == 10
MinGhostSleep == 10
MaxGhostSleep == 60
\* last_bot_response_time = None
None == -1
\* the first reading of the clock (any positive epoch time)
Epoch == 1

(********************************* bounds *********************************)
\* Spec: history length and counters of the fine-clock accumulator
MaxHistory == 2
MaxSwitches == 1
MaxSlow == 2
MaxClicks == 1
MaxGhosting == 40
\* ScoreSpec: history length and counters of the coarse-clock accumulator
MaxScoreHistory == 6
MaxScoreSwitches == 1
MaxScoreSlow == 3
MaxScoreClicks == 1
MaxScoreGhosting == 310
\* SimSpec: the longest simulated conversation, in seconds
MaxDuration == 6

\* clock readings on both sides of the 5 s and 30 s thresholds
FineTimes ==
    { Epoch, Epoch + PageSwitchWindow, Epoch + PageSwitchWindow + SlowThreshold,
      Epoch + PageSwitchWindow + SlowThreshold + 1 }
\* clock readings whose gap is above every threshold and half the ghosting cap
CoarseTimes == { Epoch, Epoch + (GhostingCap \div 2) + 1 }

(************************** exact rational numbers ************************)
RECURSIVE GCD(_, _)
GCD(a, b) == IF b = 0 THEN a ELSE GCD(b, a % b)

Abs(x) == IF x < 0 THEN -x ELSE x

\* n/d in lowest terms, d > 0
Rat(n, d) == LET g == GCD(Abs(n), d) IN <<n \div g, d \div g>>

Zero == <<0, 1>>
One == <<1, 1>>
RAdd(a, b) == Rat(a[1] * b[2] + b[1] * a[2], a[2] * b[2])
RSub(a, b) == Rat(a[1] * b[2] - b[1] * a[2], a[2] * b[2])
RMul(a, b) == Rat(a[1] * b[1], a[2] * b[2])
RLess(a, b) == a[1] * b[2] < b[1] * a[2]
RLeq(a, b) == a[1] * b[2] <= b[1] * a[2]
\* Python's min(a, b) and max(a, b): the first argument wins a tie
RMin(a, b) == IF RLess(b, a) THEN b ELSE a
RMax(a, b) == IF RLess(a, b) THEN b ELSE a

\* f"{x:.2f}": x rounded to hundredths, ties to even, as a count of hundredths
Format2f(x) ==
    LET n == x[1] * 100
        q == n \div x[2]
        r == n % x[2]
    IN  IF 2 * r < x[2] THEN q
        ELSE IF 2 * r > x[2] THEN q + 1
        ELSE IF q % 2 = 0 THEN q ELSE q + 1

(***************************** the accumulator ****************************)
Message(timestamp, is_user) == [timestamp |-> timestamp, is_user |-> is_user]

\* ChatbotEngagementMetrics.__init__
NewMetrics ==
    [ messages |-> <<>>,
      page_switches |-> 0,
      slow_responses |-> 0,
      external_clicks |-> 0,
      ghosting_time |-> 0,
      last_bot_response_time |-> None ]

\* Python truth value of an Optional[float]: None and 0.0 are false
Truthy(x) == x # None /\ x # 0

\* t1 is the time.time() of line 30, t2 the one of line 33
add_message(self, is_user, t1, t2) ==
    [ self EXCEPT
        !.messages = Append(@, Message(t1, is_user)),
        !.last_bot_response_time = IF ~is_user THEN t2 ELSE @ ]

\* mutant: the window includes its end (<= 5)
record_page_switch_inclusive(self, t) ==
    IF Truthy(self.last_bot_response_time)
       /\ t - self.last_bot_response_time <= PageSwitchWindow
    THEN [self EXCEPT !.page_switches = @ + 1]
    ELSE self

record_page_switch(self, t) ==
    IF Truthy(self.last_bot_response_time)
       /\ t - self.last_bot_response_time < PageSwitchWindow
    THEN [self EXCEPT !.page_switches = @ + 1]
    ELSE self

\* mutant: a gap of exactly 30 s counts as slow (>= 30)
record_slow_response_inclusive(self) ==
    LET n == Len(self.messages) IN
    IF n >= 2 /\ self.messages[n].timestamp - self.messages[n - 1].timestamp
                    >= SlowThreshold
    THEN [self EXCEPT !.slow_responses = @ + 1]
    ELSE self

record_slow_response(self) ==
    LET n == Len(self.messages) IN
    IF n >= 2
    THEN LET time_diff == self.messages[n].timestamp - self.messages[n - 1].timestamp
         IN  IF time_diff > SlowThreshold
             THEN [self EXCEPT !.slow_responses = @ + 1]
             ELSE self
    ELSE self

record_external_click(self) == [self EXCEPT !.external_clicks = @ + 1]

\* self.messages and not self.messages[-1].is_user
HasPendingBotMessage(self) ==
    Len(self.messages) > 0 /\ ~self.messages[Len(self.messages)].is_user

\* mutant: the elapsed time is assigned, not accumulated (= for +=)
update_ghosting_time_assigning(self, t) ==
    IF HasPendingBotMessage(self)
    THEN [self EXCEPT
            !.ghosting_time = t - self.messages[Len(self.messages)].timestamp]
    ELSE self

\* mutant: the difference is taken the wrong way round
update_ghosting_time_reversed(self, t) ==
    IF HasPendingBotMessage(self)
    THEN [self EXCEPT
            !.ghosting_time = @ + (self.messages[Len(self.messages)].timestamp - t)]
    ELSE self

update_ghosting_time(self, t) ==
    LET n == Len(self.messages) IN
    IF HasPendingBotMessage(self)
    THEN [self EXCEPT !.ghosting_time = @ + (t - self.messages[n].timestamp)]
    ELSE self

\* _calculate_avg_response_time: mean gap over the role changes, 0 if none
calculate_avg_response_time(self) ==
    LET m == self.messages
        idx == { i \in 2..Len(m) : m[i].is_user # m[i - 1].is_user }
        total == LET RECURSIVE S(_)
                     S(I) == IF I = {} THEN 0
                             ELSE LET i == CHOOSE j \in I : TRUE
                                  IN  (m[i].timestamp - m[i - 1].timestamp) + S(I \ {i})
                 IN  S(idx)
    IN  IF idx # {} THEN Rat(total, Cardinality(idx)) ELSE Zero

\* the outcome of a call: a returned value, or an exception raised
Returns(v) == [raised |-> FALSE, value |-> v]
ZeroDivisionError == [raised |-> TRUE, value |-> <<>>]

user_count(self) ==
    Cardinality({ i \in DOMAIN self.messages : self.messages[i].is_user })

\* mutant: the slow-response rate is taken over all messages
engagement_sum_slow_over_total(self, total_messages, user_messages) ==
    RAdd(RAdd(RAdd(RAdd(
        RMul(Rat(user_messages, total_messages), <<3, 10>>),
        RMul(RSub(One, Rat(self.page_switches, total_messages)), <<2, 10>>)),
        RMul(RSub(One, Rat(self.slow_responses, total_messages)), <<2, 10>>)),
        RMul(RSub(One, Rat(self.external_clicks, total_messages)), <<2, 10>>)),
        RMul(RSub(One, RMin(Rat(self.ghosting_time, GhostingCap), One)), <<1, 10>>))

\* the weighted sum of lines 60-66, for user_messages # 0
engagement_sum(self, total_messages, user_messages) ==
    RAdd(RAdd(RAdd(RAdd(
        RMul(Rat(user_messages, total_messages), <<3, 10>>),
        RMul(RSub(One, Rat(self.page_switches, total_messages)), <<2, 10>>)),
        RMul(RSub(One, Rat(self.slow_responses, user_messages)), <<2, 10>>)),
        RMul(RSub(One, Rat(self.external_clicks, total_messages)), <<2, 10>>)),
        RMul(RSub(One, RMin(Rat(self.ghosting_time, GhostingCap), One)), <<1, 10>>))

\* lines 56-68: the score of a history long enough to be scored
weighted_score(self) ==
    LET total_messages == Len(self.messages)
        user_messages == user_count(self)
        avg_response_time == calculate_avg_response_time(self)
    IN  \* slow_responses / user_messages raises when user_messages = 0
        IF user_messages = 0
        THEN ZeroDivisionError
        ELSE Returns(RMin(RMax(
                 engagement_sum(self, total_messages, user_messages), Zero), One))

\* mutant: the threshold is one message short (< 5)
get_engagement_score_short_threshold(self) ==
    IF Len(self.messages) < MinMessages - 1
    THEN Returns(Zero)
    ELSE weighted_score(self)

get_engagement_score(self) ==
    IF Len(self.messages) < MinMessages
    THEN Returns(Zero)
    ELSE weighted_score(self)

\* the lines printed, and whether the last one raised instead of printing
print_metrics(self) ==
    LET head == << Len(self.messages), self.page_switches, self.slow_responses,
                   self.external_clicks, Format2f(Rat(self.ghosting_time, 1)) >>
        score == get_engagement_score(self)
    IN  IF score.raised
        THEN [raised |-> TRUE, value |-> head]
        ELSE [raised |-> FALSE, value |-> Append(head, Format2f(score.value))]

(******************************** the calls *******************************)
NoCall == [op |-> "none", raised |-> FALSE, value |-> <<>>]
Called(name, outcome) ==
    [op |-> name, raised |-> outcome.raised, value |-> outcome.value]

Init ==
    /\ metrics = NewMetrics
    /\ now = Epoch
    /\ returned = NoCall
    /\ pc = "idle"
    /\ is_user_turn = FALSE
    /\ start_time = Epoch
    /\ duration = 0

AddMessage(is_user, t1, t2) ==
    /\ now <= t1 /\ t1 <= t2
    /\ metrics' = add_message(metrics, is_user, t1, t2)
    /\ now' = IF is_user THEN t1 ELSE t2
    /\ returned' = NoCall
    /\ UNCHANGED simvars

RecordPageSwitch(t) ==
    /\ now <= t
    /\ metrics' = record_page_switch(metrics, t)
    /\ now' = IF Truthy(metrics.last_bot_response_time) THEN t ELSE now
    /\ returned' = NoCall
    /\ UNCHANGED simvars

RecordSlowResponse ==
    /\ metrics' = record_slow_response(metrics)
    /\ returned' = NoCall
    /\ UNCHANGED <<now, simvars>>

RecordExternalClick ==
    /\ metrics' = record_external_click(metrics)
    /\ returned' = NoCall
    /\ UNCHANGED <<now, simvars>>

UpdateGhostingTime(t) ==
    /\ now <= t
    /\ metrics' = update_ghosting_time(metrics, t)
    /\ now' = IF HasPendingBotMessage(metrics) THEN t ELSE now
    /\ returned' = NoCall
    /\ UNCHANGED simvars

\* mutant: scoring consumes the page-switch counter
GetEngagementScore_resetting ==
    /\ returned' = Called("get_engagement_score", get_engagement_score(metrics))
    /\ metrics' = [metrics EXCEPT !.page_switches = 0]
    /\ UNCHANGED <<now, simvars>>

GetEngagementScore ==
    /\ returned' = Called("get_engagement_score", get_engagement_score(metrics))
    /\ UNCHANGED <<metrics, now, simvars>>

PrintMetrics ==
    /\ returned' = Called("print_metrics", print_metrics(metrics))
    /\ UNCHANGED <<metrics, now, simvars>>

\* the bounds of the two accumulator specifications
InFineBounds ==
    /\ Len(metrics.messages) <= MaxHistory
    /\ metrics.page_switches <= MaxSwitches
    /\ metrics.slow_responses <= MaxSlow
    /\ metrics.external_clicks <= MaxClicks
    /\ metrics.ghosting_time <= MaxGhosting

InScoreBounds ==
    /\ Len(metrics.messages) <= MaxScoreHistory
    /\ metrics.page_switches <= MaxScoreSwitches
    /\ metrics.slow_responses <= MaxScoreSlow
    /\ metrics.external_clicks <= MaxScoreClicks
    /\ metrics.ghosting_time <= MaxScoreGhosting

\* the accumulator driven through its public methods in any order, the clock
\* read on both sides of the 5 s and 30 s thresholds
Next ==
    \/ \E is_user \in BOOLEAN, t1, t2 \in FineTimes :
          AddMessage(is_user, t1, t2) /\ InFineBounds'
    \/ \E t \in FineTimes : RecordPageSwitch(t) /\ InFineBounds'
    \/ RecordSlowResponse /\ InFineBounds'
    \/ RecordExternalClick /\ InFineBounds'
    \/ \E t \in FineTimes : UpdateGhostingTime(t) /\ InFineBounds'
    \/ GetEngagementScore
    \/ PrintMetrics

Spec == Init /\ [][Next]_vars

\* the same calls with histories long enough to be scored, the clock coarse
ScoreNext ==
    \/ \E is_user \in BOOLEAN, t1, t2 \in CoarseTimes :
          AddMessage(is_user, t1, t2) /\ InScoreBounds'
    \/ \E t \in CoarseTimes : RecordPageSwitch(t) /\ InScoreBounds'
    \/ RecordSlowResponse /\ InScoreBounds'
    \/ RecordExternalClick /\ InScoreBounds'
    \/ \E t \in CoarseTimes : UpdateGhostingTime(t) /\ InScoreBounds'
    \/ GetEngagementScore
    \/ PrintMetrics

ScoreSpec == Init /\ [][ScoreNext]_vars

(****************************** the simulator ****************************)
\* random.uniform(1, 10) and random.uniform(10, 60), at their two ends
Sleeps == {MinSleep, MaxSleep}
GhostSleeps == {MinGhostSleep, MaxGhostSleep}
Durations == 0..MaxDuration

\* simulate_conversation(d), up to the loop
SimStart ==
    /\ pc = "idle"
    /\ \E d \in Durations : duration' = d
    /\ metrics' = NewMetrics
    /\ start_time' = now
    /\ is_user_turn' = FALSE
    /\ pc' = "loop"
    /\ UNCHANGED <<now, returned>>

\* the behaviours of a user turn, each taken or not by random.random()
UserTurn(self, slow, switch, click, t) ==
    LET m1 == IF slow THEN record_slow_response(self) ELSE self
        m2 == IF switch THEN record_page_switch(m1, t) ELSE m1
    IN  IF click THEN record_external_click(m2) ELSE m2

\* mutant: the turn never changes hands (is_user_turn is not toggled)
SimTurn_same_speaker ==
    /\ pc = "loop"
    /\ now - start_time < duration
    /\ LET m == add_message(metrics, is_user_turn, now, now) IN
       \/ /\ metrics' = m
          /\ \E s \in Sleeps : now' = now + s
       \/ \E g \in GhostSleeps, s \in Sleeps :
             /\ metrics' = update_ghosting_time(m, now + g)
             /\ now' = now + g + s
    /\ UNCHANGED <<returned, pc, start_time, duration, is_user_turn>>

\* one iteration of the while loop: a message, the turn's behaviours, the
\* change of turn and the sleep; time passes in the sleeps only
SimTurn ==
    /\ pc = "loop"
    /\ now - start_time < duration
    /\ LET m == add_message(metrics, is_user_turn, now, now) IN
       \/ /\ is_user_turn
          /\ \E slow, switch, click \in BOOLEAN :
                metrics' = UserTurn(m, slow, switch, click, now)
          /\ \E s \in Sleeps : now' = now + s
       \/ /\ ~is_user_turn
          /\ metrics' = m
          /\ \E s \in Sleeps : now' = now + s
       \/ /\ ~is_user_turn
          /\ \E g \in GhostSleeps, s \in Sleeps :
                /\ metrics' = update_ghosting_time(m, now + g)
                /\ now' = now + g + s
    /\ is_user_turn' = ~is_user_turn
    /\ UNCHANGED <<returned, pc, start_time, duration>>

\* the loop condition fails: return metrics
SimReturn ==
    /\ pc = "loop"
    /\ ~(now - start_time < duration)
    /\ pc' = "returned"
    /\ UNCHANGED <<metrics, now, returned, is_user_turn, start_time, duration>>

\* analyze_dataset or print_metrics on the conversation returned
Analyze ==
    /\ pc = "returned"
    /\ returned' = Called("get_engagement_score", get_engagement_score(metrics))
    /\ pc' = "analyzed"
    /\ UNCHANGED <<metrics, now, is_user_turn, start_time, duration>>

SimNext == SimStart \/ SimTurn \/ SimReturn \/ Analyze

SimSpec == Init /\ [][SimNext]_vars

(********************************* claims *********************************)
Score == get_engagement_score(metrics)
Total == Len(metrics.messages)
Users == user_count(metrics)
Queries == {"get_engagement_score", "print_metrics"}
HasBotMessage == \E i \in DOMAIN metrics.messages : ~metrics.messages[i].is_user
Min(a, b) == IF a < b THEN a ELSE b
Max(a, b) == IF a > b THEN a ELSE b

\* C1: after any sequence of recording calls get_engagement_score returns a
\* value s with 0 <= s <= 1.
C1_ScoreWithinUnitInterval ==
    /\ ~Score.raised
    /\ RLeq(Zero, Score.value)
    /\ RLeq(Score.value, One)

\* the numerator, over 3000 * total, of the weighted sum with the
\* slow-response term at 1, clamped to [0, 1]
FullSlowTermNumerator ==
    Max(0, Min(3000 * Total,
        900 * Users + 600 * (Total - metrics.page_switches) + 600 * Total
        + 600 * (Total - metrics.external_clicks)
        + Total * (GhostingCap - Min(metrics.ghosting_time, GhostingCap))))

\* C2: with 6 or more messages and no user message, get_engagement_score does
\* not fail: it returns the weighted sum with the slow-response term at 1
\* (0.7 for six bot messages and no other event).
C2_NoUserMessagesScored ==
    (Total >= MinMessages /\ Users = 0) =>
        /\ ~Score.raised
        /\ Score.value = Rat(FullSlowTermNumerator, 3000 * Total)
        /\ (/\ Total = MinMessages
            /\ metrics.page_switches = 0 /\ metrics.slow_responses = 0
            /\ metrics.external_clicks = 0 /\ metrics.ghosting_time = 0)
           => Score.value = <<7, 10>>

\* C3: with fewer than 6 messages get_engagement_score returns exactly 0.0,
\* whatever the counters, the ghosting time and the number of user messages.
C3_ZeroBelowSixMessages ==
    Total < 6 => (~Score.raised /\ Score.value = <<0, 1>>)

C3_Witness ==
    /\ returned.op = "get_engagement_score"
    /\ returned.value = <<0, 1>>
    /\ Total = 5
    /\ Users = 0
    /\ metrics.page_switches > 0
    /\ metrics.slow_responses > 0
    /\ metrics.external_clicks > 0
    /\ metrics.ghosting_time > 0

\* the numerator, over 3000 * total * users, of
\* 0.3*(u/t) + 0.2*(1 - ps/t) + 0.2*(1 - sr/u) + 0.2*(1 - ec/t)
\* + 0.1*(1 - min(g/300, 1)), clamped to [0, 1]
WeightedSumNumerator ==
    Max(0, Min(3000 * Total * Users,
        900 * Users * Users
        + 600 * Users * (Total - metrics.page_switches)
        + 600 * Total * (Users - metrics.slow_responses)
        + 600 * Users * (Total - metrics.external_clicks)
        + Total * Users * (300 - Min(metrics.ghosting_time, 300))))

AlternatingThreeEach ==
    /\ Total = 6
    /\ Users = 3
    /\ \A i \in 1..5 : metrics.messages[i].is_user # metrics.messages[i + 1].is_user
    /\ metrics.page_switches = 0 /\ metrics.slow_responses = 0
    /\ metrics.external_clicks = 0 /\ metrics.ghosting_time = 0

\* C4: with at least 6 messages, one of them a user message, the score is
\* the weighted sum clamped to [0, 1]; 3 user and 3 bot messages recorded
\* alternately with no other event score 0.85.
C4_WeightedSum ==
    (Total >= 6 /\ Users >= 1) =>
        /\ ~Score.raised
        /\ Score.value = Rat(WeightedSumNumerator, 3000 * Total * Users)
        /\ AlternatingThreeEach => Score.value = <<17, 20>>

C4_Witness ==
    /\ returned.op = "get_engagement_score"
    /\ ~returned.raised
    /\ Total >= 6 /\ Users >= 1
    /\ metrics.page_switches > 0
    /\ metrics.slow_responses > 0
    /\ metrics.external_clicks > 0
    /\ metrics.ghosting_time > 0 /\ metrics.ghosting_time < 300
    /\ RLess(Zero, returned.value) /\ RLess(returned.value, One)

\* C5: record_page_switch adds 1 to page_switches when a non-user message
\* has been recorded and the current time is less than 5 s after the time
\* recorded for the latest one (last_bot_response_time); otherwise it leaves
\* page_switches unchanged.
C5_PageSwitchWindow ==
    [][\A t \in FineTimes :
         RecordPageSwitch(t) =>
            IF HasBotMessage /\ t - metrics.last_bot_response_time < 5
            THEN metrics'.page_switches = metrics.page_switches + 1
            ELSE metrics'.page_switches = metrics.page_switches]_vars

C5_Witness ==
    /\ metrics.page_switches = 1
    /\ HasBotMessage
    /\ now - metrics.last_bot_response_time = 0

LastGap ==
    metrics.messages[Total].timestamp - metrics.messages[Total - 1].timestamp

\* C6: record_slow_response leaves slow_responses unchanged with fewer than 2
\* messages or a gap of at most 30 s between the two latest messages, and
\* adds exactly 1 per call when the gap exceeds 30 s, whatever their roles.
C6_SlowResponseGap ==
    [][RecordSlowResponse =>
         IF Total >= 2 /\ LastGap > 30
         THEN metrics'.slow_responses = metrics.slow_responses + 1
         ELSE metrics'.slow_responses = metrics.slow_responses]_vars

C6_Witness ==
    /\ metrics.slow_responses = 2
    /\ Total = 2
    /\ LastGap = 31
    /\ metrics.messages[1].is_user = metrics.messages[2].is_user

\* C7: update_ghosting_time leaves ghosting_time unchanged when the history
\* is empty or the latest message is from the user; otherwise it adds the
\* current time minus the latest message's timestamp, a non-negative amount,
\* and does so again on every call.
C7_GhostingAccumulates ==
    [][\A t \in FineTimes :
         UpdateGhostingTime(t) =>
            IF Total = 0 \/ metrics.messages[Total].is_user
            THEN metrics'.ghosting_time = metrics.ghosting_time
            ELSE /\ t - metrics.messages[Total].timestamp >= 0
                 /\ metrics'.ghosting_time
                      = metrics.ghosting_time
                        + (t - metrics.messages[Total].timestamp)]_vars

\* two calls on the same pending bot message: 5 s, then 35 s
C7_Witness ==
    /\ Total = 1
    /\ ~metrics.messages[1].is_user
    /\ now - metrics.messages[1].timestamp = 35
    /\ metrics.ghosting_time = 40

\* C8: a new accumulator has its counters and ghosting_time at 0, and no
\* call decreases a counter, ghosting_time or the length of the history.
C8_CountersMonotonic ==
    /\ metrics.page_switches = 0 /\ metrics.slow_responses = 0
    /\ metrics.external_clicks = 0 /\ metrics.ghosting_time = 0
    /\ [][/\ metrics'.page_switches >= metrics.page_switches
          /\ metrics'.slow_responses >= metrics.slow_responses
          /\ metrics'.external_clicks >= metrics.external_clicks
          /\ metrics'.ghosting_time >= metrics.ghosting_time
          /\ Len(metrics'.messages) >= Len(metrics.messages)]_vars

C8_Witness ==
    /\ Total = 2
    /\ metrics.page_switches > 0
    /\ metrics.slow_responses > 0
    /\ metrics.external_clicks > 0
    /\ metrics.ghosting_time > 0

\* C9: get_engagement_score and print_metrics change nothing of the
\* accumulator, and a call repeated with no recording call in between
\* returns the same result.
C9_QueriesReadOnly ==
    [][returned'.op \in Queries =>
         /\ metrics' = metrics
         /\ returned.op = returned'.op => returned' = returned]_vars

C9_Witness ==
    /\ returned.op = "print_metrics"
    /\ ~returned.raised
    /\ Total >= 6
    /\ metrics.page_switches > 0
    /\ metrics.ghosting_time > 0

\* C10: in an accumulator produced by simulate_conversation the turns
\* alternate from a bot message on, so a history of 6 or more messages has
\* a user message and get_engagement_score does not divide by zero.
C10_SimulatedNeverDividesByZero ==
    /\ \A i \in DOMAIN metrics.messages :
          metrics.messages[i].is_user = (i % 2 = 0)
    /\ Total >= 6 => Users >= 1
    /\ ~Score.raised
    /\ pc = "analyzed" => ~returned.raised

C10_Witness ==
    /\ pc = "analyzed"
    /\ returned.op = "get_engagement_score"
    /\ Total >= 6
    /\ metrics.page_switches > 0
    /\ metrics.external_clicks > 0
    /\ RLess(Zero, returned.value)
====
